---------------------------- MODULE Spec2Model ----------------------------
(***************************************************************************)
(* Download orchestration and progress tracking of the YouTube downloader  *)
(* backend (server.js): the in-memory progress map, the temporary files,   *)
(* the POST /api/download pipeline with its stream and FFmpeg callbacks,   *)
(* the progress and file routes, the 60 s cleanup timer and the hourly     *)
(* sweep.  Every action is one run-to-completion step of the Node.js event *)
(* loop: a route handler up to its first await, or one callback together   *)
(* with the promise continuations (microtasks) it releases.                *)
(***************************************************************************)
EXTENDS Integers, Sequences, FiniteSets, TLC

(***************************************************************************)
(* Bounds of the model.                                                    *)
(***************************************************************************)
\* Chunks a media stream delivers (its total length, in chunks), and the
\* number of 'progress' reports of one FFmpeg run.
MaxChunks == 2
\* File requests of one session that may be in flight or waiting for their
\* cleanup timer at the same time.
MaxFileRequests == 1

\* The formats of a format list under examination, before it is repeated,
\* and the number of times it is repeated to get a long list.
MaxFormats == 3
MaxCopies == 6

\* The session ids uuidv4() hands out, in the order it hands them out.
SessionIds == <<"id1", "id2">>
Ids == {SessionIds[i] : i \in DOMAIN SessionIds}

(***************************************************************************)
(* The videos the extraction library knows.                                *)
(***************************************************************************)
UrlA == "https://youtu.be/a"
UrlB == "https://youtu.be/b"
BadUrl == "ftp://not-a-video"

\* A format's qualityLabel: "1080p" is Label(1080, 0), "1080p60" is
\* Label(1080, 60); audio formats have none.
Label(height, fps) == [present |-> TRUE, height |-> height, fps |-> fps]
NoLabel == [present |-> FALSE, height |-> 0, fps |-> 0]

\* audioBitrate 0 stands for a format that has none.
Fmt(itag, hasVideo, hasAudio, container, qualityLabel, bitrate, audioBitrate) ==
  [itag |-> itag, hasVideo |-> hasVideo, hasAudio |-> hasAudio,
   container |-> container, qualityLabel |-> qualityLabel, bitrate |-> bitrate,
   audioBitrate |-> audioBitrate]

\* Video a: combined, video-only and audio-only formats.
FormatsA ==
  << Fmt("18", TRUE, TRUE, "mp4", Label(360, 0), 500, 96),
     Fmt("136", TRUE, FALSE, "mp4", Label(720, 0), 2000, 0),
     Fmt("140", FALSE, TRUE, "mp4", NoLabel, 130, 128),
     Fmt("137", TRUE, FALSE, "mp4", Label(1080, 0), 4000, 0),
     Fmt("22", TRUE, TRUE, "mp4", Label(720, 0), 1500, 192),
     Fmt("135", TRUE, FALSE, "mp4", Label(480, 0), 1000, 0) >>

\* Video b: no video-only format.
FormatsB ==
  << Fmt("18", TRUE, TRUE, "mp4", Label(360, 0), 500, 96),
     Fmt("140", FALSE, TRUE, "mp4", NoLabel, 130, 128) >>

\* ytdl.validateURL
ValidateURL(url) == url \in {UrlA, UrlB}

\* ytdl.getInfo, when it succeeds; the title is the one left by the two
\* replace() calls, and both videos have the same title.
GetInfo(url) ==
  [title |-> "clip", formats |-> IF url = UrlA THEN FormatsA ELSE FormatsB]

Titles == {GetInfo(url).title : url \in {UrlA, UrlB}}

\* The request bodies a client posts.
Req(url, format, itag) == [url |-> url, format |-> format, itag |-> itag]

Requests ==
  { Req(BadUrl, "mp4", "highest"),
    Req(UrlA, "mp3", "highest"),
    Req(UrlA, "mp3", "ffmpeg-best"),
    Req(UrlA, "mp4", "highest-audio"),
    Req(UrlA, "mp4", "ffmpeg-best"),
    Req(UrlA, "mp4", "ffmpeg-medium"),
    Req(UrlB, "mp4", "ffmpeg-best") }

(***************************************************************************)
(* JavaScript helpers.                                                     *)
(***************************************************************************)
\* Math.round(a / b) for a >= 0, b > 0 (halves round up).
Round(a, b) == (2 * a + b) \div (2 * b)

\* The empty object, and what {...undefined} spreads to.
Undefined == << >>

\* { ...cur, ...upd }
Spread(cur, upd) ==
  [f \in DOMAIN cur \cup DOMAIN upd |-> IF f \in DOMAIN upd THEN upd[f] ELSE cur[f]]

\* Map.prototype.set, get and delete on a map held as a function.
MapSet(m, k, v) == [j \in DOMAIN m \cup {k} |-> IF j = k THEN v ELSE m[j]]
MapGet(m, k) == IF k \in DOMAIN m THEN m[k] ELSE Undefined
MapDelete(m, k) == [j \in DOMAIN m \ {k} |-> m[j]]

(***************************************************************************)
(* State.                                                                  *)
(***************************************************************************)
VARIABLES
  downloadProgress,  \* the Map of progress records, keyed by session id
  disk,              \* the paths of the files in tempDir
  uuids,             \* the ids uuidv4() has still to hand out
  req,               \* per session: the request body it was started with
  pc,                \* per session: where its POST /api/download handler is
  outcome,           \* per session: "pending", "done" or "caught"
  strm,              \* per session: the ytdl stream of the current stage
  ws,                \* per session: the write stream of the current stage
  units,             \* per session: chunks downloaded / FFmpeg reports so far
  opts,              \* per session: the options last passed to ytdl()
  transfers,         \* per session: res.download() calls in flight
  timers,            \* per session: armed 60 s cleanup timers
  aged,              \* ids whose record was in the map at an earlier sweep
  removed,           \* ids whose record a cleanup has deleted
  finished,          \* the paths whose write stream has emitted 'finish'
  merged,            \* ids whose FFmpeg run has emitted 'end'
  client,            \* the state of the React front end (App.js)
  probe,             \* a format list and what the selection code makes of it
  response           \* the HTTP response this step sent, or NoResponse

vars == << downloadProgress, disk, uuids, req, pc, outcome, strm, ws, units,
           opts, transfers, timers, aged, removed, finished, merged, client, probe,
           response >>

NoResponse == [route |-> "none", code |-> 0]
NoReq == Undefined
NoOpts == Undefined

(***************************************************************************)
(* Format selection.                                                       *)
(***************************************************************************)
\* Array.prototype.sort, which is stable: cmp[i, j] is what the comparator
\* returns for seq[i] and seq[j] (negative: seq[i] first), and elements it
\* ranks equal keep their order.
Sort(seq, cmp) ==
  LET Before(j, i) == cmp[j, i] < 0 \/ (cmp[j, i] = 0 /\ j < i)
      rank == [i \in DOMAIN seq |-> Cardinality({j \in DOMAIN seq : Before(j, i)})]
  IN  [k \in DOMAIN seq |-> seq[CHOOSE i \in DOMAIN seq : rank[i] = k - 1]]

\* parseInt(qualityLabel?.replace('p', '') || '0'): replace() drops the first
\* 'p' only, so "1080p60" reads as 108060.
ParseHeight(f) ==
  IF ~f.qualityLabel.present THEN 0
  ELSE IF f.qualityLabel.fps = 0 THEN f.qualityLabel.height
  ELSE f.qualityLabel.height * 100 + f.qualityLabel.fps

ByHeightDesc(a, b) == ParseHeight(b) - ParseHeight(a)

ByHeightThenBitrateDesc(a, b) ==
  IF ParseHeight(b) # ParseHeight(a) THEN ParseHeight(b) - ParseHeight(a)
  ELSE b.bitrate - a.bitrate

IsVideoOnly(f) == f.hasVideo /\ ~f.hasAudio
IsCombinedMp4(f) == f.hasVideo /\ f.hasAudio /\ f.container = "mp4"

\* downloadVideoStream: the video-only formats, best first.
VideoOnlyFormats(info) ==
  LET kept == SelectSeq(info.formats, IsVideoOnly)
  IN  Sort(kept, [i \in DOMAIN kept, j \in DOMAIN kept |-> ByHeightDesc(kept[i], kept[j])])

\* downloadVideoStream: videoFormats[0], or videoFormats[floor(n / 2)].
SelectedFormat(videoFormats, useBestQuality) ==
  IF useBestQuality THEN videoFormats[1]
  ELSE videoFormats[(Len(videoFormats) \div 2) + 1]

\* downloadRegularVideo: the options passed to ytdl().
VideoOptions(itag, info) ==
  IF itag # "" /\ itag \notin {"highest", "highest-audio"}
  THEN [quality |-> itag]
  ELSE LET kept == SelectSeq(info.formats, IsCombinedMp4)
           videoWithAudioFormats ==
             Sort(kept, [i \in DOMAIN kept, j \in DOMAIN kept |->
                           ByHeightThenBitrateDesc(kept[i], kept[j])])
       IN  IF Len(videoWithAudioFormats) > 0
           THEN [quality |-> videoWithAudioFormats[1].itag]
           ELSE [filter |-> "videoandaudio", quality |-> "highest"]

\* downloadAudio: the options passed to ytdl().
AudioOptions(itag) ==
  [filter |-> "audioonly",
   quality |-> IF itag # "" /\ itag # "highest" THEN itag ELSE "highestaudio"]

(***************************************************************************)
(* The format listing of POST /api/info.                                   *)
(***************************************************************************)
\* The listed form of a combined format.  Its quality string is
\* `${qualityLabel || quality} (combined)`, held as the label it starts with:
\* format.quality ("medium", "hd720", ...) holds no digits followed by 'p',
\* so without a label the string reads as height 0.
CombinedEntry(format) ==
  [quality |-> format.qualityLabel, itag |-> format.itag, bitrate |-> format.bitrate,
   type |-> "combined", hasAudio |-> TRUE]

\* The listed form of a video-only format.
VideoOnlyEntry(format) ==
  [quality |-> format.qualityLabel, itag |-> format.itag, bitrate |-> format.bitrate,
   type |-> "video-only", hasAudio |-> FALSE]

\* The listed form of an audio-only format: bitrate is the audioBitrate.
AudioEntry(format) ==
  [quality |-> IF format.audioBitrate # 0 THEN ToString(format.audioBitrate) \o "kbps"
               ELSE "Unknown",
   itag |-> format.itag, bitrate |-> format.audioBitrate]

\* The filter of videoOnlyFormats; a format's container is the subtype of
\* its mimeType, so the mimeType test adds nothing to the container test.
IsListedVideoOnly(format) ==
  /\ format.hasVideo /\ ~format.hasAudio
  /\ format.qualityLabel.present
  /\ format.container = "mp4"

IsAudioOnly(format) == format.hasAudio /\ ~format.hasVideo

\* parseInt(quality.match(/(\d+)p/)?.[1] || '0'): the digits before the
\* first 'p', so "1080p60 (combined)" reads as 1080.
EntryHeight(entry) == IF entry.quality.present THEN entry.quality.height ELSE 0

\* A comparator that puts the video-only formats first.
ByResolutionThenVideoOnly(a, b) ==
  IF EntryHeight(b) # EntryHeight(a) THEN EntryHeight(b) - EntryHeight(a)
  ELSE IF a.hasAudio /\ ~b.hasAudio THEN 1
  ELSE IF ~a.hasAudio /\ b.hasAudio THEN -1
  ELSE 0

\* The comparator of the videoFormats sort.
ByResolutionThenCombined(a, b) ==
  IF EntryHeight(b) # EntryHeight(a) THEN EntryHeight(b) - EntryHeight(a)
  ELSE IF a.hasAudio /\ ~b.hasAudio THEN -1
  ELSE IF ~a.hasAudio /\ b.hasAudio THEN 1
  ELSE 0

\* The comparator of the audioFormats sort.
ByAudioBitrateDesc(a, b) == b.bitrate - a.bitrate

\* Array.prototype.slice(0, n).
Slice(seq, n) == SubSeq(seq, 1, IF Len(seq) < n THEN Len(seq) ELSE n)

MaxListedVideo == 15
MaxListedAudio == 5

PresetFormats ==
  << [quality |-> "Best Quality (FFmpeg merge)", itag |-> "ffmpeg-best", type |-> "preset"],
     [quality |-> "Best Combined Format", itag |-> "highest-audio", type |-> "preset"],
     [quality |-> "Medium Quality (FFmpeg merge)", itag |-> "ffmpeg-medium", type |-> "preset"] >>

\* The sorted and truncated list of combined and video-only formats.
ListedVideoFormats(formats) ==
  LET combined == SelectSeq(formats, IsCombinedMp4)
      videoOnly == SelectSeq(formats, IsListedVideoOnly)
      allFormats == [i \in DOMAIN combined |-> CombinedEntry(combined[i])]
                      \o [i \in DOMAIN videoOnly |-> VideoOnlyEntry(videoOnly[i])]
      sorted == Sort(allFormats, [i \in DOMAIN allFormats, j \in DOMAIN allFormats |->
                                   ByResolutionThenCombined(allFormats[i], allFormats[j])])
  IN  Slice(sorted, MaxListedVideo)

\* The sorted and truncated list of audio-only formats.
ListedAudioFormats(formats) ==
  LET audio == SelectSeq(formats, IsAudioOnly)
      mapped == [i \in DOMAIN audio |-> AudioEntry(audio[i])]
      sorted == Sort(mapped, [i \in DOMAIN mapped, j \in DOMAIN mapped |->
                               ByAudioBitrateDesc(mapped[i], mapped[j])])
  IN  Slice(sorted, MaxListedAudio)

\* The body of the 200 response of POST /api/info.
InfoResponse(info) ==
  [success |-> TRUE, title |-> info.title,
   videoFormats |-> PresetFormats \o ListedVideoFormats(info.formats),
   audioFormats |-> ListedAudioFormats(info.formats)]

(***************************************************************************)
(* Temporary files.                                                        *)
(***************************************************************************)
Mp3Path(title, sessionId) == title \o "_" \o sessionId \o ".mp3"
Mp4Path(title, sessionId) == title \o "_" \o sessionId \o ".mp4"
\* A video path that is named after the title only.
VideoPath_NoId(title, sessionId) == title \o "_video.mp4"

VideoPath(title, sessionId) == title \o "_video_" \o sessionId \o ".mp4"
AudioPath(title, sessionId) == title \o "_audio_" \o sessionId \o ".m4a"
MergedPath(title, sessionId) == title \o "_merged_" \o sessionId \o ".mp4"

\* Every path a session may write under a title.
PathsOf(title, sessionId) ==
  { Mp3Path(title, sessionId), Mp4Path(title, sessionId), VideoPath(title, sessionId),
    AudioPath(title, sessionId), MergedPath(title, sessionId) }

\* fs.unlinkSync of every path of ps that fs.existsSync finds.
UnlinkExisting(files, ps) == files \ ps

(***************************************************************************)
(* Progress records.                                                       *)
(***************************************************************************)
Rec(status, progress, stage) ==
  [status |-> status, progress |-> progress, stage |-> stage]

Percent(n) == ToString(n) \o "%"

InitialRecord == Rec("initializing", 0, "Getting video information...")

\* The catch block of POST /api/download.
ErrorRecord(message) ==
  [status |-> "error", progress |-> 0, stage |-> "Error occurred", error |-> message]

\* The 'progress' handlers of downloadAudio and downloadRegularVideo.
DownloadingRecord(what, downloaded, total) ==
  LET progress == Round(downloaded * 100, total)
  IN  [status |-> "downloading", progress |-> progress,
       stage |-> "Downloading " \o what \o "... " \o Percent(progress),
       downloadedBytes |-> downloaded, totalBytes |-> total]

\* The 'finish' handlers of downloadAudio and downloadRegularVideo.
CompletedRecord(outputPath, filename) ==
  [status |-> "completed", progress |-> 100, stage |-> "Download completed!",
   filePath |-> outputPath, filename |-> filename]

\* A handler that stores a whole record, as the plain downloads do.
StreamProgressRecord_Whole(currentProgress, baseProgress, streamType, downloaded, total) ==
  [status |-> "downloading",
   progress |-> baseProgress + Round(downloaded * 25, total),
   stage |-> "Downloading " \o streamType \o " stream... "
               \o Percent(Round(downloaded * 100, total))]

\* A handler that adds the stream's whole percentage to the base.
StreamProgressRecord_Unscaled(currentProgress, baseProgress, streamType, downloaded, total) ==
  Spread(currentProgress,
         [progress |-> baseProgress + Round(downloaded * 100, total),
          stage |-> "Downloading " \o streamType \o " stream... "
                      \o Percent(Round(downloaded * 100, total))])

\* The 'progress' handlers of downloadVideoStream and downloadAudioStream.
StreamProgressRecord(currentProgress, baseProgress, streamType, downloaded, total) ==
  Spread(currentProgress,
         [progress |-> baseProgress + Round(downloaded * 25, total),
          stage |-> "Downloading " \o streamType \o " stream... "
                      \o Percent(Round(downloaded * 100, total))])

\* A handler that stores FFmpeg's own percentage.
MergingRecord_Raw(percent) ==
  [status |-> "merging", progress |-> percent,
   stage |-> "Merging with FFmpeg... " \o Percent(percent),
   ffmpegProgress |-> [percent |-> percent]]

\* The 'progress' handler of mergeWithFFmpeg.
MergingRecord(percent) ==
  [status |-> "merging", progress |-> 75 + Round(percent, 4),
   stage |-> "Merging with FFmpeg... " \o Percent(percent),
   ffmpegProgress |-> [percent |-> percent]]

\* A completed record that does not say where the file is.
MergedRecord_NoPath(outputPath, title) ==
  [status |-> "completed", progress |-> 100,
   stage |-> "Download and merge completed!", filename |-> title \o "_merged.mp4"]

\* The last record of downloadAndMergeWithFFmpeg.
MergedRecord(outputPath, title) ==
  [status |-> "completed", progress |-> 100,
   stage |-> "Download and merge completed!",
   filePath |-> outputPath, filename |-> title \o "_merged.mp4"]

(***************************************************************************)
(* The front end (App.js) as it is first rendered, and no format list      *)
(* under examination.                                                      *)
(***************************************************************************)
\* useState/useRef initial values; videoInfo is held as the url it was
\* fetched for ("" for null), progressInterval as the session id its armed
\* interval polls ("" once cleared), polls as the session ids whose progress
\* request is in flight.
NoClient ==
  [url |-> "", videoInfo |-> "", selectedFormat |-> "", progress |-> 0, stage |-> "",
   error |-> "", isLoading |-> FALSE, downloadLink |-> "", progressInterval |-> "",
   polls |-> {}]

NoProbe == [formats |-> << >>, op |-> "none"]

(***************************************************************************)
(* Initial state: the server has just started.                             *)
(***************************************************************************)
Start(ids) ==
  /\ downloadProgress = << >>
  /\ disk = {}
  /\ uuids = ids
  /\ req = [s \in Ids |-> NoReq]
  /\ pc = [s \in Ids |-> "unused"]
  /\ outcome = [s \in Ids |-> "none"]
  /\ strm = [s \in Ids |-> "none"]
  /\ ws = [s \in Ids |-> "none"]
  /\ units = [s \in Ids |-> 0]
  /\ opts = [s \in Ids |-> NoOpts]
  /\ transfers = [s \in Ids |-> 0]
  /\ timers = [s \in Ids |-> 0]
  /\ aged = {}
  /\ removed = {}
  /\ finished = {}
  /\ merged = {}
  /\ client = NoClient
  /\ response = NoResponse

Init == Start(SessionIds) /\ probe = NoProbe

Info(s) == GetInfo(req[s].url)
Title(s) == Info(s).title

MergeStages == {"downloadVideoStream", "downloadAudioStream", "mergeWithFFmpeg"}
StreamStages ==
  {"downloadAudio", "downloadRegularVideo", "downloadVideoStream", "downloadAudioStream"}

\* The three paths of downloadAndMergeWithFFmpeg.
MergePaths(s) == {VideoPath(Title(s), s), AudioPath(Title(s), s), MergedPath(Title(s), s)}

\* The file the stream of the session's current stage is piped into.
StagePath(s) ==
  CASE pc[s] = "downloadAudio" -> Mp3Path(Title(s), s)
    [] pc[s] = "downloadRegularVideo" -> Mp4Path(Title(s), s)
    [] pc[s] = "downloadVideoStream" -> VideoPath(Title(s), s)
    [] pc[s] = "downloadAudioStream" -> AudioPath(Title(s), s)

\* const stream = ytdl(url, options); fs.createWriteStream(path);
\* stream.pipe(writeStream)
OpenStream(s, options, path) ==
  /\ opts' = [opts EXCEPT ![s] = options]
  /\ disk' = disk \cup {path}
  /\ strm' = [strm EXCEPT ![s] = "open"]
  /\ ws' = [ws EXCEPT ![s] = "open"]
  /\ units' = [units EXCEPT ![s] = 0]

(***************************************************************************)
(* POST /api/download, up to its first await.                              *)
(***************************************************************************)
\* A handler that answers with the session id and stores the first record
\* only later.
PostDownload_NoRecord(r) ==
  /\ uuids # << >>
  /\ LET sessionId == Head(uuids)
     IN  /\ uuids' = Tail(uuids)
         /\ IF ~ValidateURL(r.url)
            THEN /\ response' = [route |-> "download", code |-> 400,
                                 body |-> [error |-> "Invalid YouTube URL"]]
                 /\ pc' = [pc EXCEPT ![sessionId] = "rejected"]
                 /\ UNCHANGED << req, outcome >>
            ELSE /\ response' = [route |-> "download", code |-> 200,
                                 body |-> [success |-> TRUE, sessionId |-> sessionId]]
                 /\ req' = [req EXCEPT ![sessionId] = r]
                 /\ pc' = [pc EXCEPT ![sessionId] = "getInfo"]
                 /\ outcome' = [outcome EXCEPT ![sessionId] = "pending"]
  /\ UNCHANGED << downloadProgress, disk, strm, ws, units, opts, transfers, timers,
                  aged, removed, finished, merged >>
  /\ UNCHANGED probe

\* A handler that initialises progress tracking before it validates the URL.
PostDownload_RecordFirst(r) ==
  /\ uuids # << >>
  /\ LET sessionId == Head(uuids)
     IN  /\ uuids' = Tail(uuids)
         /\ downloadProgress' = MapSet(downloadProgress, sessionId, InitialRecord)
         /\ IF ~ValidateURL(r.url)
            THEN /\ response' = [route |-> "download", code |-> 400,
                                 body |-> [error |-> "Invalid YouTube URL"]]
                 /\ pc' = [pc EXCEPT ![sessionId] = "rejected"]
                 /\ UNCHANGED << req, outcome >>
            ELSE /\ response' = [route |-> "download", code |-> 200,
                                 body |-> [success |-> TRUE, sessionId |-> sessionId]]
                 /\ req' = [req EXCEPT ![sessionId] = r]
                 /\ pc' = [pc EXCEPT ![sessionId] = "getInfo"]
                 /\ outcome' = [outcome EXCEPT ![sessionId] = "pending"]
  /\ UNCHANGED << disk, strm, ws, units, opts, transfers, timers, aged, removed,
                  finished, merged >>
  /\ UNCHANGED probe

PostDownload(r) ==
  /\ uuids # << >>
  /\ LET sessionId == Head(uuids)
     IN  /\ uuids' = Tail(uuids)
         /\ IF ~ValidateURL(r.url)
            THEN /\ response' = [route |-> "download", code |-> 400,
                                 body |-> [error |-> "Invalid YouTube URL"]]
                 /\ pc' = [pc EXCEPT ![sessionId] = "rejected"]
                 /\ UNCHANGED << downloadProgress, req, outcome >>
            ELSE /\ downloadProgress' = MapSet(downloadProgress, sessionId, InitialRecord)
                 /\ response' = [route |-> "download", code |-> 200,
                                 body |-> [success |-> TRUE, sessionId |-> sessionId]]
                 /\ req' = [req EXCEPT ![sessionId] = r]
                 /\ pc' = [pc EXCEPT ![sessionId] = "getInfo"]
                 /\ outcome' = [outcome EXCEPT ![sessionId] = "pending"]
  /\ UNCHANGED << disk, strm, ws, units, opts, transfers, timers, aged, removed >>
  /\ UNCHANGED << finished, merged >>
  /\ UNCHANGED probe

\* POST /api/download when the statement that reads req.body throws, as it
\* does for a request without a parsed body where express.json() leaves
\* req.body undefined: the handler's catch block stores the error record
\* under the id uuidv4() has given, and nothing is sent.
PostDownloadThrows ==
  /\ uuids # << >>
  /\ LET sessionId == Head(uuids)
     IN  /\ uuids' = Tail(uuids)
         /\ downloadProgress' =
              MapSet(downloadProgress, sessionId, ErrorRecord("req.body is undefined"))
         /\ pc' = [pc EXCEPT ![sessionId] = "thrown"]
         /\ outcome' = [outcome EXCEPT ![sessionId] = "caught"]
  /\ response' = NoResponse
  /\ UNCHANGED << disk, req, strm, ws, units, opts, transfers, timers, aged, removed >>
  /\ UNCHANGED << finished, merged >>
  /\ UNCHANGED << client, probe >>

(***************************************************************************)
(* The catch blocks: a rejected stage promise, or a failed getInfo, ends   *)
(* the handler.  downloadAndMergeWithFFmpeg first deletes its three files. *)
(***************************************************************************)
Rejected(s, message) ==
  /\ outcome' = [outcome EXCEPT ![s] = "caught"]
  /\ disk' = IF pc[s] \in MergeStages THEN UnlinkExisting(disk, MergePaths(s)) ELSE disk
  /\ downloadProgress' = MapSet(downloadProgress, s, ErrorRecord(message))

(***************************************************************************)
(* The three download paths, each up to its first await.                   *)
(***************************************************************************)
DownloadAudio(s) ==
  /\ downloadProgress' = MapSet(downloadProgress, s, Rec("downloading", 0, "Downloading audio..."))
  /\ OpenStream(s, AudioOptions(req[s].itag), Mp3Path(Title(s), s))
  /\ pc' = [pc EXCEPT ![s] = "downloadAudio"]
  /\ UNCHANGED outcome

DownloadRegularVideo(s) ==
  /\ downloadProgress' = MapSet(downloadProgress, s, Rec("downloading", 0, "Downloading video..."))
  /\ OpenStream(s, VideoOptions(req[s].itag, Info(s)), Mp4Path(Title(s), s))
  /\ pc' = [pc EXCEPT ![s] = "downloadRegularVideo"]
  /\ UNCHANGED outcome

DownloadAndMergeWithFFmpeg(s, useBestQuality) ==
  LET videoFormats == VideoOnlyFormats(Info(s))
  IN  /\ pc' = [pc EXCEPT ![s] = "downloadVideoStream"]
      /\ IF Len(videoFormats) = 0
         THEN /\ outcome' = [outcome EXCEPT ![s] = "caught"]
              /\ disk' = UnlinkExisting(disk, MergePaths(s))
              /\ downloadProgress' =
                   MapSet(downloadProgress, s, ErrorRecord("No video-only formats found"))
              /\ UNCHANGED << strm, ws, units, opts >>
         ELSE /\ downloadProgress' =
                   MapSet(downloadProgress, s, Rec("downloading", 0, "Downloading video stream..."))
              /\ OpenStream(s, [quality |-> SelectedFormat(videoFormats, useBestQuality).itag],
                            VideoPath(Title(s), s))
              /\ UNCHANGED outcome

\* A handler that looks at the itag before the format.
GetInfoResolve_ItagFirst(s) ==
  /\ pc[s] = "getInfo" /\ outcome[s] = "pending"
  /\ IF req[s].itag = "ffmpeg-best" \/ req[s].itag = "ffmpeg-medium"
     THEN DownloadAndMergeWithFFmpeg(s, req[s].itag = "ffmpeg-best")
     ELSE IF req[s].format = "mp3"
          THEN DownloadAudio(s)
          ELSE DownloadRegularVideo(s)
  /\ response' = NoResponse
  /\ UNCHANGED << uuids, req, transfers, timers, aged, removed >>
  /\ UNCHANGED << finished, merged >>
  /\ UNCHANGED << client, probe >>

\* await ytdl.getInfo(url) resolves: the handler picks its path.
GetInfoResolve(s) ==
  /\ pc[s] = "getInfo" /\ outcome[s] = "pending"
  /\ IF req[s].format = "mp3"
     THEN DownloadAudio(s)
     ELSE IF req[s].itag = "ffmpeg-best" \/ req[s].itag = "ffmpeg-medium"
          THEN DownloadAndMergeWithFFmpeg(s, req[s].itag = "ffmpeg-best")
          ELSE DownloadRegularVideo(s)
  /\ response' = NoResponse
  /\ UNCHANGED << uuids, req, transfers, timers, aged, removed >>
  /\ UNCHANGED << finished, merged >>
  /\ UNCHANGED << client, probe >>

\* await ytdl.getInfo(url) rejects.
GetInfoReject(s) ==
  /\ pc[s] = "getInfo" /\ outcome[s] = "pending"
  /\ Rejected(s, "getInfo failed")
  /\ response' = NoResponse
  /\ UNCHANGED << uuids, req, pc, strm, ws, units, opts, transfers, timers, aged, removed >>
  /\ UNCHANGED << finished, merged >>
  /\ UNCHANGED << client, probe >>


(***************************************************************************)
(* Stream callbacks.  A stream delivers MaxChunks chunks, one 'progress'   *)
(* event each, and then ends, which finishes the write stream it is piped  *)
(* into.  Either stream may fail instead.  A write-stream error does not   *)
(* stop the source stream: its 'progress' handler stays registered and may *)
(* still run.                                                              *)
(***************************************************************************)
\* stream.on('progress', ...): the record the stage's handler stores.
ProgressRecord(s, downloaded, total) ==
  CASE pc[s] = "downloadAudio" -> DownloadingRecord("audio", downloaded, total)
    [] pc[s] = "downloadRegularVideo" -> DownloadingRecord("video", downloaded, total)
    [] pc[s] = "downloadVideoStream" ->
         StreamProgressRecord(MapGet(downloadProgress, s), 0, "video", downloaded, total)
    [] pc[s] = "downloadAudioStream" ->
         StreamProgressRecord(MapGet(downloadProgress, s), 50, "audio", downloaded, total)

StreamProgress(s) ==
  /\ pc[s] \in StreamStages /\ strm[s] = "open" /\ units[s] < MaxChunks
  /\ units' = [units EXCEPT ![s] = units[s] + 1]
  /\ downloadProgress' =
       MapSet(downloadProgress, s, ProgressRecord(s, units[s] + 1, MaxChunks))
  /\ response' = NoResponse
  /\ UNCHANGED << disk, uuids, req, pc, outcome, strm, ws, opts, transfers, timers,
                  aged, removed >>
  /\ UNCHANGED << finished, merged >>
  /\ UNCHANGED << client, probe >>

\* writeStream.on('finish', ...) of downloadAudio and downloadRegularVideo.
FinishDownload(s) ==
  /\ pc[s] \in {"downloadAudio", "downloadRegularVideo"}
  /\ strm[s] = "open" /\ ws[s] = "open" /\ units[s] = MaxChunks
  /\ strm' = [strm EXCEPT ![s] = "ended"]
  /\ ws' = [ws EXCEPT ![s] = "finished"]
  /\ downloadProgress' =
       MapSet(downloadProgress, s,
              CompletedRecord(StagePath(s),
                              Title(s) \o (IF pc[s] = "downloadAudio" THEN ".mp3" ELSE ".mp4")))
  /\ outcome' = [outcome EXCEPT ![s] = "done"]
  /\ response' = NoResponse
  /\ UNCHANGED << disk, uuids, req, pc, units, opts, transfers, timers, aged, removed >>
  /\ finished' = finished \cup {StagePath(s)}
  /\ UNCHANGED merged
  /\ UNCHANGED << client, probe >>

\* A downloadVideoStream that resolves on the first chunk, before the file
\* has finished writing.
FinishVideoStream_Early(s) ==
  /\ pc[s] = "downloadVideoStream" /\ outcome[s] = "pending"
  /\ strm[s] = "open" /\ ws[s] = "open" /\ units[s] >= 1
  /\ downloadProgress' =
       MapSet(downloadProgress, s, Rec("downloading", 50, "Downloading audio stream..."))
  /\ OpenStream(s, [filter |-> "audioonly", quality |-> "highestaudio"],
                AudioPath(Title(s), s))
  /\ pc' = [pc EXCEPT ![s] = "downloadAudioStream"]
  /\ response' = NoResponse
  /\ UNCHANGED << uuids, req, outcome, transfers, timers, aged, removed, finished, merged >>
  /\ UNCHANGED << client, probe >>

\* writeStream.on('finish', resolve) of downloadVideoStream: step 2 starts.
FinishVideoStream(s) ==
  /\ pc[s] = "downloadVideoStream" /\ outcome[s] = "pending"
  /\ strm[s] = "open" /\ ws[s] = "open" /\ units[s] = MaxChunks
  /\ downloadProgress' =
       MapSet(downloadProgress, s, Rec("downloading", 50, "Downloading audio stream..."))
  /\ OpenStream(s, [filter |-> "audioonly", quality |-> "highestaudio"],
                AudioPath(Title(s), s))
  /\ pc' = [pc EXCEPT ![s] = "downloadAudioStream"]
  /\ response' = NoResponse
  /\ UNCHANGED << uuids, req, outcome, transfers, timers, aged, removed >>
  /\ finished' = finished \cup {StagePath(s)}
  /\ UNCHANGED merged
  /\ UNCHANGED << client, probe >>

\* writeStream.on('finish', resolve) of downloadAudioStream: step 3 starts.
FinishAudioStream(s) ==
  /\ pc[s] = "downloadAudioStream" /\ outcome[s] = "pending"
  /\ strm[s] = "open" /\ ws[s] = "open" /\ units[s] = MaxChunks
  /\ strm' = [strm EXCEPT ![s] = "ended"]
  /\ ws' = [ws EXCEPT ![s] = "finished"]
  /\ units' = [units EXCEPT ![s] = 0]
  /\ downloadProgress' =
       MapSet(downloadProgress, s,
              Rec("merging", 75, "Merging video and audio with FFmpeg..."))
  /\ pc' = [pc EXCEPT ![s] = "mergeWithFFmpeg"]
  /\ response' = NoResponse
  /\ UNCHANGED << disk, uuids, req, outcome, opts, transfers, timers, aged, removed >>
  /\ finished' = finished \cup {StagePath(s)}
  /\ UNCHANGED merged
  /\ UNCHANGED << client, probe >>

\* stream.on('error', reject)
StreamError(s) ==
  /\ pc[s] \in StreamStages /\ strm[s] = "open"
  /\ strm' = [strm EXCEPT ![s] = "error"]
  /\ IF outcome[s] = "pending"
     THEN Rejected(s, "stream error")
     ELSE UNCHANGED << outcome, disk, downloadProgress >>
  /\ response' = NoResponse
  /\ UNCHANGED << uuids, req, pc, ws, units, opts, transfers, timers, aged, removed >>
  /\ UNCHANGED << finished, merged >>
  /\ UNCHANGED << client, probe >>

\* writeStream.on('error', reject)
WriteError(s) ==
  /\ pc[s] \in StreamStages /\ ws[s] = "open"
  /\ ws' = [ws EXCEPT ![s] = "error"]
  /\ IF outcome[s] = "pending"
     THEN Rejected(s, "write error")
     ELSE UNCHANGED << outcome, disk, downloadProgress >>
  /\ response' = NoResponse
  /\ UNCHANGED << uuids, req, pc, strm, units, opts, transfers, timers, aged, removed >>
  /\ UNCHANGED << finished, merged >>
  /\ UNCHANGED << client, probe >>

(***************************************************************************)
(* FFmpeg callbacks.  The process reports MaxChunks times at most, writes  *)
(* the merged file while it runs, and ends or fails once.                  *)
(***************************************************************************)
\* .on('progress', ...)
MergeProgress(s) ==
  /\ pc[s] = "mergeWithFFmpeg" /\ outcome[s] = "pending" /\ units[s] < MaxChunks
  /\ units' = [units EXCEPT ![s] = units[s] + 1]
  /\ disk' = disk \cup {MergedPath(Title(s), s)}
  /\ downloadProgress' =
       MapSet(downloadProgress, s, MergingRecord(((units[s] + 1) * 100) \div MaxChunks))
  /\ response' = NoResponse
  /\ UNCHANGED << uuids, req, pc, outcome, strm, ws, opts, transfers, timers, aged, removed >>
  /\ UNCHANGED << finished, merged >>
  /\ UNCHANGED << client, probe >>

\* .on('end', resolve): the two intermediate files go, the session completes.
MergeEnd(s) ==
  /\ pc[s] = "mergeWithFFmpeg" /\ outcome[s] = "pending"
  /\ disk' = (disk \cup {MergedPath(Title(s), s)})
               \ {VideoPath(Title(s), s), AudioPath(Title(s), s)}
  /\ downloadProgress' =
       MapSet(downloadProgress, s, MergedRecord(MergedPath(Title(s), s), Title(s)))
  /\ outcome' = [outcome EXCEPT ![s] = "done"]
  /\ response' = NoResponse
  /\ UNCHANGED << uuids, req, pc, strm, ws, units, opts, transfers, timers, aged, removed >>
  /\ merged' = merged \cup {s}
  /\ UNCHANGED finished
  /\ UNCHANGED << client, probe >>

\* .on('end', resolve) when fs.unlinkSync throws for the intermediate file
\* failed ("video", or "audio" after the video file has gone).  The catch
\* block of downloadAndMergeWithFFmpeg then unlinks, in the order video,
\* audio, output, every file that exists; again tells whether unlinkSync
\* throws for the same file once more, which ends the forEach with the
\* files after it still on disk.  The catch block of the route stores the
\* error record in either case.
MergeEndUnlinkFails(s, failed, again) ==
  /\ pc[s] = "mergeWithFFmpeg" /\ outcome[s] = "pending"
  /\ LET written == disk \cup {MergedPath(Title(s), s)}
         left == IF failed = "video" THEN written
                 ELSE written \ {VideoPath(Title(s), s)}
     IN  disk' = IF again THEN left ELSE UnlinkExisting(left, MergePaths(s))
  /\ downloadProgress' = MapSet(downloadProgress, s, ErrorRecord("unlink failed"))
  /\ outcome' = [outcome EXCEPT ![s] = "caught"]
  /\ response' = NoResponse
  /\ UNCHANGED << uuids, req, pc, strm, ws, units, opts, transfers, timers, aged, removed >>
  /\ merged' = merged \cup {s}
  /\ UNCHANGED finished
  /\ UNCHANGED << client, probe >>

\* .on('error', reject)
MergeError(s) ==
  /\ pc[s] = "mergeWithFFmpeg" /\ outcome[s] = "pending"
  /\ Rejected(s, "ffmpeg error")
  /\ response' = NoResponse
  /\ UNCHANGED << uuids, req, pc, strm, ws, units, opts, transfers, timers, aged, removed >>
  /\ UNCHANGED << finished, merged >>
  /\ UNCHANGED << client, probe >>


(***************************************************************************)
(* GET /api/progress/:sessionId                                            *)
(***************************************************************************)
\* A route that stores the default it answers with.
ProgressRequest_Stores(sessionId) ==
  LET progress == IF sessionId \in DOMAIN downloadProgress
                  THEN downloadProgress[sessionId]
                  ELSE [status |-> "not_found"]
  IN  /\ response' = [route |-> "progress", code |-> 200, sessionId |-> sessionId,
                      body |-> progress]
      /\ downloadProgress' = MapSet(downloadProgress, sessionId, progress)
      /\ UNCHANGED << disk, uuids, req, pc, outcome, strm, ws, units, opts, transfers,
                      timers, aged, removed, finished, merged >>
      /\ UNCHANGED probe

ProgressRequest(sessionId) ==
  /\ response' = [route |-> "progress", code |-> 200, sessionId |-> sessionId,
                  body |-> IF sessionId \in DOMAIN downloadProgress
                           THEN downloadProgress[sessionId]
                           ELSE [status |-> "not_found"]]
  /\ UNCHANGED << downloadProgress, disk, uuids, req, pc, outcome, strm, ws, units,
                  opts, transfers, timers, aged, removed >>
  /\ UNCHANGED << finished, merged >>
  /\ UNCHANGED probe

(***************************************************************************)
(* GET /api/file/:sessionId, the res.download callback and the timer it    *)
(* arms.                                                                   *)
(***************************************************************************)
\* A route that checks for the record and not for its status.
FileRequest_AnyStatus(sessionId) ==
  LET progress == MapGet(downloadProgress, sessionId)
  IN  /\ IF sessionId \notin DOMAIN downloadProgress
         THEN /\ response' = [route |-> "file", code |-> 404, sessionId |-> sessionId,
                              body |-> [error |-> "File not found or not ready"]]
              /\ UNCHANGED transfers
         ELSE IF "filePath" \notin DOMAIN progress \/ progress.filePath \notin disk
         THEN /\ response' = [route |-> "file", code |-> 404, sessionId |-> sessionId,
                              body |-> [error |-> "File not found on disk"]]
              /\ UNCHANGED transfers
         ELSE /\ transfers[sessionId] + timers[sessionId] < MaxFileRequests
              /\ response' = [route |-> "file", code |-> 200, sessionId |-> sessionId,
                              body |-> [file |-> progress.filePath,
                                        filename |-> progress.filename]]
              /\ transfers' = [transfers EXCEPT ![sessionId] = transfers[sessionId] + 1]
      /\ UNCHANGED << downloadProgress, disk, uuids, req, pc, outcome, strm, ws, units,
                      opts, timers, aged, removed, finished, merged >>
      /\ UNCHANGED probe

FileRequest(sessionId) ==
  LET progress == MapGet(downloadProgress, sessionId)
  IN  /\ IF sessionId \notin DOMAIN downloadProgress \/ progress.status # "completed"
         THEN /\ response' = [route |-> "file", code |-> 404, sessionId |-> sessionId,
                              body |-> [error |-> "File not found or not ready"]]
              /\ UNCHANGED transfers
         ELSE IF progress.filePath \notin disk
         THEN /\ response' = [route |-> "file", code |-> 404, sessionId |-> sessionId,
                              body |-> [error |-> "File not found on disk"]]
              /\ UNCHANGED transfers
         ELSE /\ transfers[sessionId] + timers[sessionId] < MaxFileRequests
              /\ response' = [route |-> "file", code |-> 200, sessionId |-> sessionId,
                              body |-> [file |-> progress.filePath,
                                        filename |-> progress.filename]]
              /\ transfers' = [transfers EXCEPT ![sessionId] = transfers[sessionId] + 1]
      /\ UNCHANGED << downloadProgress, disk, uuids, req, pc, outcome, strm, ws, units,
                      opts, timers, aged, removed >>
      /\ UNCHANGED << finished, merged >>
      /\ UNCHANGED probe

\* The filePath a file request of the session has captured.
FilePath(s) ==
  CASE pc[s] = "downloadAudio" -> Mp3Path(Title(s), s)
    [] pc[s] = "downloadRegularVideo" -> Mp4Path(Title(s), s)
    [] pc[s] = "mergeWithFFmpeg" -> MergedPath(Title(s), s)

\* The callback of res.download: without an error it arms the 60 s timer.
DownloadCallback(s, err) ==
  /\ transfers[s] > 0
  /\ transfers' = [transfers EXCEPT ![s] = transfers[s] - 1]
  /\ timers' = [timers EXCEPT ![s] = IF err THEN timers[s] ELSE timers[s] + 1]
  /\ response' = NoResponse
  /\ UNCHANGED << downloadProgress, disk, uuids, req, pc, outcome, strm, ws, units,
                  opts, aged, removed >>
  /\ UNCHANGED << finished, merged >>
  /\ UNCHANGED << client, probe >>

\* A timer that deletes the file and leaves the record in the map.
CleanupTimer_KeepsRecord(s) ==
  /\ timers[s] > 0
  /\ timers' = [timers EXCEPT ![s] = timers[s] - 1]
  /\ disk' = disk \ {FilePath(s)}
  /\ response' = NoResponse
  /\ UNCHANGED << downloadProgress, removed, aged, uuids, req, pc, outcome, strm, ws,
                  units, opts, transfers, finished, merged >>
  /\ UNCHANGED << client, probe >>

\* A timer that empties the whole map.
CleanupTimer_ClearsMap(s) ==
  /\ timers[s] > 0
  /\ timers' = [timers EXCEPT ![s] = timers[s] - 1]
  /\ disk' = disk \ {FilePath(s)}
  /\ downloadProgress' = << >>
  /\ removed' = removed \cup DOMAIN downloadProgress
  /\ aged' = {}
  /\ response' = NoResponse
  /\ UNCHANGED << uuids, req, pc, outcome, strm, ws, units, opts, transfers,
                  finished, merged >>
  /\ UNCHANGED << client, probe >>

\* The setTimeout callback.
CleanupTimer(s) ==
  /\ timers[s] > 0
  /\ timers' = [timers EXCEPT ![s] = timers[s] - 1]
  /\ IF FilePath(s) \in disk
     THEN /\ disk' = disk \ {FilePath(s)}
          /\ downloadProgress' = MapDelete(downloadProgress, s)
          /\ removed' = IF s \in DOMAIN downloadProgress THEN removed \cup {s} ELSE removed
          /\ aged' = aged \ {s}
     ELSE UNCHANGED << disk, downloadProgress, removed, aged >>
  /\ response' = NoResponse
  /\ UNCHANGED << uuids, req, pc, outcome, strm, ws, units, opts, transfers >>
  /\ UNCHANGED << finished, merged >>
  /\ UNCHANGED << client, probe >>

(***************************************************************************)
(* The hourly sweep.  An hour has passed since the sweep before it, so the *)
(* records that one left in the map are more than an hour old now.         *)
(***************************************************************************)
OneHour == 3600000

\* The entries the loop deletes.
Expired(now) ==
  LET oneHourAgo == now - OneHour
  IN  { sessionId \in DOMAIN downloadProgress :
          /\ "timestamp" \in DOMAIN downloadProgress[sessionId]
          /\ downloadProgress[sessionId].timestamp # 0
          /\ downloadProgress[sessionId].timestamp < oneHourAgo }

Sweep(now) ==
  /\ downloadProgress' =
       [s \in DOMAIN downloadProgress \ Expired(now) |-> downloadProgress[s]]
  /\ removed' = removed \cup Expired(now)
  /\ aged' = DOMAIN downloadProgress \ Expired(now)
  /\ response' = NoResponse
  /\ UNCHANGED << disk, uuids, req, pc, outcome, strm, ws, units, opts, transfers, timers >>
  /\ UNCHANGED << finished, merged >>
  /\ UNCHANGED << client, probe >>

\* Date.now() at the sweeps.
SweepTimes == {OneHour, 2 * OneHour}

(***************************************************************************)
(* POST /api/info: the answer to a request for url; ok tells whether       *)
(* ytdl.getInfo resolves.  The route keeps no state.                       *)
(***************************************************************************)
InfoRoute(url, ok) ==
  IF ~ValidateURL(url)
  THEN [route |-> "info", code |-> 400, body |-> [error |-> "Invalid YouTube URL"]]
  ELSE IF ~ok
  THEN [route |-> "info", code |-> 500,
        body |-> [success |-> FALSE, error |-> "Failed to get video information",
                  details |-> "getInfo failed"]]
  ELSE [route |-> "info", code |-> 200, body |-> InfoResponse(GetInfo(url))]

(***************************************************************************)
(* The front end.  A fetch and the handling of its answer are one step:    *)
(* the server handles the request and the component handles the response.  *)
(* A progress poll is sent by the interval callback and answered later.    *)
(***************************************************************************)
server == << downloadProgress, disk, uuids, req, pc, outcome, strm, ws, units, opts,
             transfers, timers, aged, removed, finished, merged >>

FileLink(sessionId) == "/api/file/" \o sessionId

\* The itags of the <option>s rendered for the video info held.
Options(videoInfo) ==
  LET data == InfoResponse(GetInfo(videoInfo))
  IN  {data.videoFormats[i].itag : i \in DOMAIN data.videoFormats}
        \cup {data.audioFormats[i].itag : i \in DOMAIN data.audioFormats}

OptionsOf == [videoInfo \in {UrlA, UrlB} |-> Options(videoInfo)]

\* What the user types into the url input, and the options the user picks
\* among: a merge preset, the combined preset, a video-only format and an
\* audio-only format.
TypedUrls == {"", UrlA, UrlB, BadUrl}
PickedItags == {"ffmpeg-best", "highest-audio", "137", "140"}

\* onChange of the url input and of the format <select>.  The url and the
\* selected format are read by the two handlers only, so the last change
\* before a handler runs is taken together with the handler.
SetUrl(c, url) == [c EXCEPT !.url = url]
SetSelectedFormat(c, itag) == [c EXCEPT !.selectedFormat = itag]

\* handleGetInfo; its button is disabled while isLoading.
HandleGetInfo(url, ok) ==
  /\ ~client.isLoading
  /\ LET typed == SetUrl(client, url)
     IN  IF typed.url = ""
         THEN /\ client' = [typed EXCEPT !.error = "Please enter a YouTube URL."]
              /\ response' = NoResponse
         ELSE LET answer == InfoRoute(typed.url, ok)
                  data == answer.body
                  reset == [typed EXCEPT !.error = "", !.videoInfo = "", !.progress = 0,
                                         !.downloadLink = ""]
              IN  /\ response' = answer
                  /\ client' =
                       IF "success" \in DOMAIN data /\ data.success
                       THEN [reset EXCEPT !.videoInfo = typed.url,
                                          !.selectedFormat = data.videoFormats[1].itag]
                       ELSE [reset EXCEPT !.error = IF "details" \in DOMAIN data
                                                    THEN data.details
                                                    ELSE "Failed to get video info."]
  /\ UNCHANGED << server, probe >>

\* handleDownload up to the arming of the interval; its button is rendered
\* with the video info and disabled while isLoading.  The body it posts
\* has a url and an itag and no format.  sent tells whether the fetch
\* reaches the server.
HandleDownload(url, itag, sent) ==
  /\ client.videoInfo # ""
  /\ ~client.isLoading
  /\ itag \in OptionsOf[client.videoInfo]
  /\ LET chosen == SetSelectedFormat(SetUrl(client, url), itag)
         started == [chosen EXCEPT !.isLoading = TRUE, !.error = "", !.progress = 0,
                                   !.stage = "Initializing..."]
     IN  IF chosen.selectedFormat = ""
         THEN /\ client' = [chosen EXCEPT !.error = "Please select a format first."]
              /\ response' = NoResponse
              /\ UNCHANGED server
         ELSE IF ~sent
         THEN /\ client' = [started EXCEPT !.error = "Failed to fetch",
                                            !.isLoading = FALSE]
              /\ response' = NoResponse
              /\ UNCHANGED server
         ELSE /\ PostDownload(Req(chosen.url, "", chosen.selectedFormat))
              /\ LET downloadData == response'.body
                 IN  client' =
                       IF "success" \in DOMAIN downloadData /\ downloadData.success
                       THEN [started EXCEPT !.progressInterval = downloadData.sessionId]
                       ELSE [started EXCEPT !.error = downloadData.error,
                                            !.isLoading = FALSE]
  /\ UNCHANGED probe

\* The interval callback, every 2 s while the interval is armed: it sends
\* a progress request for the session of its handleDownload call.
PollTick ==
  /\ client.progressInterval # ""
  /\ client.progressInterval \notin client.polls
  /\ client' = [client EXCEPT !.polls = @ \cup {client.progressInterval}]
  /\ response' = NoResponse
  /\ UNCHANGED << server, probe >>

\* The rest of the interval callback, when its request is answered.
\* clearInterval clears the interval progressInterval.current names.
PollReply(sessionId) ==
  /\ sessionId \in client.polls
  /\ ProgressRequest(sessionId)
  /\ LET progressData == response'.body
         shown == [client EXCEPT
                     !.polls = @ \ {sessionId},
                     !.progress = IF "progress" \in DOMAIN progressData
                                  THEN progressData.progress ELSE 0,
                     !.stage = IF "stage" \in DOMAIN progressData
                               THEN progressData.stage ELSE ""]
     IN  client' =
           IF progressData.status = "completed"
           THEN [shown EXCEPT !.progressInterval = "",
                              !.downloadLink = FileLink(sessionId),
                              !.stage = "Download ready!", !.isLoading = FALSE]
           ELSE IF progressData.status = "error"
           THEN [shown EXCEPT !.progressInterval = "",
                              !.error = "Error during download: " \o progressData.error,
                              !.isLoading = FALSE]
           ELSE shown

\* The catch block of the interval callback: its request failed.
PollFail(sessionId) ==
  /\ sessionId \in client.polls
  /\ client' = [client EXCEPT !.polls = @ \ {sessionId}, !.progressInterval = "",
                              !.error = "Failed to get progress update.",
                              !.isLoading = FALSE]
  /\ response' = NoResponse
  /\ UNCHANGED << server, probe >>

\* A click on the download link.
OpenLink(sessionId) ==
  /\ client.downloadLink = FileLink(sessionId)
  /\ FileRequest(sessionId)
  /\ UNCHANGED client

(***************************************************************************)
(* Format lists under examination: what the selection code of              *)
(* downloadVideoStream, downloadRegularVideo and /api/info makes of a list *)
(* of formats.  The lists are drawn from a pool of combined, video-only    *)
(* and audio-only formats, with and without a frame rate in the label.     *)
(***************************************************************************)
FormatPool ==
  { Fmt("22", TRUE, TRUE, "mp4", Label(720, 0), 1500, 192),
    Fmt("59", TRUE, TRUE, "mp4", Label(720, 0), 2500, 192),
    Fmt("78", TRUE, TRUE, "mp4", Label(480, 60), 1200, 128),
    Fmt("137", TRUE, FALSE, "mp4", Label(1080, 0), 4000, 0),
    Fmt("298", TRUE, FALSE, "mp4", Label(720, 60), 3000, 0),
    Fmt("248", TRUE, FALSE, "webm", Label(1080, 0), 3500, 0),
    Fmt("140", FALSE, TRUE, "mp4", NoLabel, 130, 128),
    Fmt("251", FALSE, TRUE, "webm", NoLabel, 165, 160),
    Fmt("139", FALSE, TRUE, "mp4", NoLabel, 50, 0) }

\* seq, copies times over.
Repeat(seq, copies) ==
  [i \in 1..(Len(seq) * copies) |-> seq[((i - 1) % Len(seq)) + 1]]

FormatLists ==
  { Repeat(base, copies) :
      base \in UNION {[1..n -> FormatPool] : n \in 0..MaxFormats},
      copies \in {1, MaxCopies} }

\* The itags a request may carry; "" is a request without an itag.
ProbeItags == {"", "highest", "highest-audio", "22", "137"}

\* downloadVideoStream up to the choice of the format.
SelectVideoStream(useBestQuality) ==
  /\ probe.op = "none"
  /\ LET videoFormats == VideoOnlyFormats([formats |-> probe.formats])
     IN  probe' = [formats |-> probe.formats, op |-> "downloadVideoStream",
                   useBestQuality |-> useBestQuality,
                   result |-> IF Len(videoFormats) = 0
                              THEN [error |-> "No video-only formats found"]
                              ELSE [selectedFormat |->
                                      SelectedFormat(videoFormats, useBestQuality)]]
  /\ UNCHANGED << server, client, response >>

\* downloadRegularVideo up to the choice of the options.
SelectRegularVideo(itag) ==
  /\ probe.op = "none"
  /\ probe' = [formats |-> probe.formats, op |-> "downloadRegularVideo", itag |-> itag,
                result |-> VideoOptions(itag, [formats |-> probe.formats])]
  /\ UNCHANGED << server, client, response >>

\* POST /api/info after getInfo.
ListFormats ==
  /\ probe.op = "none"
  /\ probe' = [formats |-> probe.formats, op |-> "info",
                result |-> InfoResponse([title |-> "clip", formats |-> probe.formats])]
  /\ UNCHANGED << server, client, response >>

(***************************************************************************)
(* The system.                                                             *)
(***************************************************************************)
Next ==
  \/ \E r \in Requests : PostDownload(r) /\ UNCHANGED client
  \/ PostDownloadThrows
  \/ \E s \in Ids : GetInfoResolve(s)
  \/ \E s \in Ids : GetInfoReject(s)
  \/ \E s \in Ids : StreamProgress(s)
  \/ \E s \in Ids : FinishDownload(s)
  \/ \E s \in Ids : FinishVideoStream(s)
  \/ \E s \in Ids : FinishAudioStream(s)
  \/ \E s \in Ids : StreamError(s)
  \/ \E s \in Ids : WriteError(s)
  \/ \E s \in Ids : MergeProgress(s)
  \/ \E s \in Ids : MergeEnd(s)
  \/ \E s \in Ids, failed \in {"video", "audio"}, again \in BOOLEAN :
       MergeEndUnlinkFails(s, failed, again)
  \/ \E s \in Ids : MergeError(s)
  \/ \E s \in Ids : ProgressRequest(s) /\ UNCHANGED client
  \/ \E s \in Ids : FileRequest(s) /\ UNCHANGED client
  \/ \E s \in Ids, err \in BOOLEAN : DownloadCallback(s, err)
  \/ \E s \in Ids : CleanupTimer(s)
  \/ \E now \in SweepTimes : Sweep(now)

Spec == Init /\ [][Next]_vars


\* One session, and timers that fire: a setTimeout callback that is due runs.
LiveInit == Start(SubSeq(SessionIds, 1, 1)) /\ probe = NoProbe

LiveSpec == LiveInit /\ [][Next]_vars /\ \A s \in Ids : WF_vars(CleanupTimer(s))

\* The selection code applied to every format list.
FormatInit ==
  /\ Start(<< >>)
  /\ probe \in {[formats |-> formats, op |-> "none"] : formats \in FormatLists}

FormatNext ==
  \/ \E useBestQuality \in BOOLEAN : SelectVideoStream(useBestQuality)
  \/ \E itag \in ProbeItags : SelectRegularVideo(itag)
  \/ ListFormats

FormatSpec == FormatInit /\ [][FormatNext]_vars

\* The server with the front end as its only client.
ClientNext ==
  \/ \E url \in TypedUrls, ok \in BOOLEAN : HandleGetInfo(url, ok)
  \/ \E url \in TypedUrls, itag \in PickedItags, sent \in BOOLEAN :
       HandleDownload(url, itag, sent)
  \/ PollTick
  \/ \E s \in Ids : PollReply(s)
  \/ \E s \in Ids : PollFail(s)
  \/ \E s \in Ids : OpenLink(s)
  \/ \E s \in Ids : GetInfoResolve(s)
  \/ \E s \in Ids : GetInfoReject(s)
  \/ \E s \in Ids : StreamProgress(s)
  \/ \E s \in Ids : FinishDownload(s)
  \/ \E s \in Ids : FinishVideoStream(s)
  \/ \E s \in Ids : FinishAudioStream(s)
  \/ \E s \in Ids : StreamError(s)
  \/ \E s \in Ids : WriteError(s)
  \/ \E s \in Ids : MergeProgress(s)
  \/ \E s \in Ids : MergeEnd(s)
  \/ \E s \in Ids, failed \in {"video", "audio"}, again \in BOOLEAN :
       MergeEndUnlinkFails(s, failed, again)
  \/ \E s \in Ids : MergeError(s)
  \/ \E s \in Ids, err \in BOOLEAN : DownloadCallback(s, err)
  \/ \E s \in Ids : CleanupTimer(s)

\* One session; an armed interval fires and a request in flight that does
\* not fail is answered.
ClientSpec ==
  /\ LiveInit /\ [][ClientNext]_vars
  /\ WF_vars(PollTick)
  /\ \A s \in Ids : WF_vars(PollReply(s))


(***************************************************************************)
(* Vocabulary of the properties.                                           *)
(***************************************************************************)
\* The session id has been returned to a client.
Returned(s) == pc[s] \notin {"unused", "rejected", "thrown"}

\* The session was started with one of the two FFmpeg presets.
IsMergeSession(s) == Returned(s) /\ req[s].format # "mp3"
                       /\ req[s].itag \in {"ffmpeg-best", "ffmpeg-medium"}

StatusOf(s) ==
  IF s \in DOMAIN downloadProgress /\ "status" \in DOMAIN downloadProgress[s]
  THEN downloadProgress[s].status ELSE "none"

\* The temporary files of a session that are on disk.
TempFiles(s) == {p \in disk : \E title \in Titles : p \in PathsOf(title, s)}

(* C1: in a session started with itag 'ffmpeg-best' or 'ffmpeg-medium' the
   audio stream download has started only if the video-only file has
   finished writing, the FFmpeg merge has started only if the audio file has
   finished writing too, and the status is 'completed' only if the merge has
   ended successfully. *)
C1_StagesInOrder ==
  \A s \in Ids :
    IsMergeSession(s) =>
      /\ (AudioPath(Title(s), s) \in disk \/ pc[s] \in {"downloadAudioStream", "mergeWithFFmpeg"})
           => VideoPath(Title(s), s) \in finished
      /\ (MergedPath(Title(s), s) \in disk \/ pc[s] = "mergeWithFFmpeg")
           => {VideoPath(Title(s), s), AudioPath(Title(s), s)} \subseteq finished
      /\ StatusOf(s) = "completed" => s \in merged

C1_Witness ==
  \E s \in Ids :
    /\ IsMergeSession(s) /\ req[s].itag = "ffmpeg-medium"
    /\ StatusOf(s) = "completed" /\ s \in merged
    /\ {VideoPath(Title(s), s), AudioPath(Title(s), s)} \subseteq finished

(* C2: the record {status: 'initializing', progress: 0} is in the map when
   the response carrying the new session id is sent, and a returned session
   id has a record in the map, so that the progress route does not answer
   'not_found' for it, for as long as no cleanup has removed the record. *)
C2_RecordBeforeResponse ==
  /\ (response.route = "download" /\ response.code = 200)
       => /\ response.body.sessionId \in DOMAIN downloadProgress
          /\ downloadProgress[response.body.sessionId].status = "initializing"
          /\ downloadProgress[response.body.sessionId].progress = 0
  /\ \A s \in Ids :
       (Returned(s) /\ s \notin removed) =>
         /\ s \in DOMAIN downloadProgress
         /\ (response.route = "progress" /\ response.sessionId = s)
              => response.body.status # "not_found"

C2_Witness ==
  \E s \in Ids :
    /\ Returned(s) /\ s \notin removed /\ outcome[s] = "caught"
    /\ response.route = "progress" /\ response.sessionId = s
    /\ response.body.status = "error"


(* C3: once a stage of a session has failed and the handler has caught the
   failure, the session's record is {status: 'error', progress: 0,
   stage: 'Error occurred', error: <message>}, which is what a client that
   polls afterwards observes. *)
C3_ErrorReported ==
  \A s \in Ids :
    outcome[s] = "caught" =>
      /\ s \in DOMAIN downloadProgress
      /\ downloadProgress[s].status = "error"
      /\ downloadProgress[s].progress = 0
      /\ downloadProgress[s].stage = "Error occurred"
      /\ "error" \in DOMAIN downloadProgress[s]

(* C4: when a session has ended with status 'error', whatever its download
   path, no temporary file created for it remains on disk. *)
C4_NoTempFileAfterError ==
  \A s \in Ids : StatusOf(s) = "error" => TempFiles(s) = {}

(* C6: a run of the hourly sweep leaves no record in the map that was
   already there at the sweep before it, that is, none older than an hour. *)
C6_SweepRemovesOld ==
  [][(\E now \in SweepTimes : Sweep(now)) => aged \cap DOMAIN downloadProgress' = {}]_vars


(* C5: once a completed session's file has been delivered without error (its
   60 s timer is armed), the output file is eventually deleted and the record
   eventually removed, and from then on the progress route answers
   'not_found' and the file route answers 404 for that session. *)
Gone(s) ==
  /\ s \notin DOMAIN downloadProgress
  /\ TempFiles(s) = {}
  /\ (response.route = "progress" /\ response.sessionId = s)
       => response.body = [status |-> "not_found"]
  /\ (response.route = "file" /\ response.sessionId = s) => response.code = 404

C5_CleanedAfterDownload == \A s \in Ids : (timers[s] > 0) ~> [](Gone(s))

C5_Witness ==
  \E s \in Ids :
    /\ s \in removed /\ timers[s] = 0 /\ Gone(s)
    /\ response.route = "file" /\ response.sessionId = s /\ response.code = 404


(* C7: every step of a session A, its start, stream progress events, stage
   changes, completion, errors and cleanup included, leaves the progress
   record of every other session B as it was, under any interleaving. *)
SessionStep(a) ==
  \/ (uuids # << >> /\ Head(uuids) = a /\ \E r \in Requests : PostDownload(r))
  \/ (uuids # << >> /\ Head(uuids) = a /\ PostDownloadThrows)
  \/ GetInfoResolve(a) \/ GetInfoReject(a)
  \/ StreamProgress(a) \/ FinishDownload(a) \/ FinishVideoStream(a) \/ FinishAudioStream(a)
  \/ StreamError(a) \/ WriteError(a)
  \/ MergeProgress(a) \/ MergeEnd(a) \/ MergeError(a)
  \/ (\E failed \in {"video", "audio"}, again \in BOOLEAN :
        MergeEndUnlinkFails(a, failed, again))
  \/ (\E err \in BOOLEAN : DownloadCallback(a, err)) \/ CleanupTimer(a)

C7_SessionsIsolated ==
  [][\A a \in Ids :
       SessionStep(a) =>
         \A b \in Ids \ {a} :
           /\ (b \in DOMAIN downloadProgress') = (b \in DOMAIN downloadProgress)
           /\ MapGet(downloadProgress', b) = MapGet(downloadProgress, b)]_vars

C7_Witness ==
  /\ "id1" \in removed
  /\ StatusOf("id2") = "merging" /\ units["id2"] >= 1

(* C8: the progress route answers with exactly the record stored for the
   session id, or {status: 'not_found'} when the map holds none, and leaves
   the map as it was; no record has the status 'not_found'. *)
C8_ProgressRoute ==
  /\ [](\A s \in DOMAIN downloadProgress : StatusOf(s) # "not_found")
  /\ [][response'.route = "progress" =>
          /\ downloadProgress' = downloadProgress
          /\ response'.body =
               IF response'.sessionId \in DOMAIN downloadProgress
               THEN downloadProgress[response'.sessionId]
               ELSE [status |-> "not_found"]]_vars

C8_Witness ==
  /\ response.route = "progress" /\ response.sessionId = "id1"
  /\ response.body = [status |-> "not_found"]
  /\ "id1" \in removed /\ StatusOf("id2") = "downloading"

(* C9: the file route delivers a file only for a session whose record is
   present with status 'completed' and whose file is on disk; otherwise it
   answers 404 'File not found or not ready', or 404 'File not found on disk'
   when the record is completed and the file is missing, and a 404 leaves the
   progress map and the files on disk as they were. *)
C9_FileRoute ==
  [][response'.route = "file" =>
       LET s == response'.sessionId
           ready == s \in DOMAIN downloadProgress /\ StatusOf(s) = "completed"
       IN  /\ ~ready =>
                /\ response'.code = 404
                /\ response'.body = [error |-> "File not found or not ready"]
           /\ (ready /\ downloadProgress[s].filePath \notin disk) =>
                /\ response'.code = 404
                /\ response'.body = [error |-> "File not found on disk"]
           /\ response'.code = 200 =>
                /\ ready /\ downloadProgress[s].filePath \in disk
                /\ response'.body.file = downloadProgress[s].filePath
           /\ response'.code = 404 =>
                /\ downloadProgress' = downloadProgress /\ disk' = disk
                /\ transfers' = transfers /\ timers' = timers]_vars

C9_Witness ==
  /\ response.route = "file" /\ response.code = 404
  /\ StatusOf(response.sessionId) = "merging"
  /\ TempFiles(response.sessionId) # {}

(* C10: a POST /api/download whose URL fails validation is answered with
   400 'Invalid YouTube URL' and no session id, and neither then nor later
   does its id have a progress record, a temporary file or a stream. *)
C10_InvalidUrlRejected ==
  /\ [](\A s \in Ids :
          pc[s] = "rejected" =>
            /\ s \notin DOMAIN downloadProgress /\ TempFiles(s) = {}
            /\ strm[s] = "none" /\ ws[s] = "none" /\ outcome[s] = "none"
            /\ opts[s] = NoOpts)
  /\ [][\A r \in Requests :
          (PostDownload(r) /\ ~ValidateURL(r.url)) =>
            /\ response' = [route |-> "download", code |-> 400,
                            body |-> [error |-> "Invalid YouTube URL"]]
            /\ pc'[Head(uuids)] = "rejected"
            /\ UNCHANGED << downloadProgress, disk, strm, ws, opts, outcome >>]_vars

C10_Witness ==
  /\ pc["id2"] = "rejected" /\ "id2" \notin DOMAIN downloadProgress
  /\ response.route = "download" /\ response.code = 400
  /\ StatusOf("id1") = "downloading"


(* C11: once a download is started the front end stops polling, and clears
   its loading state, exactly when a poll is answered with status
   'completed' or 'error' or fails; on 'completed' it shows the link
   /api/file/<sessionId>, which it never shows for a session that has not
   completed; and once the session it polls has reached 'completed' or
   'error' its polling eventually stops. *)
C11_Stopping ==
  /\ (client.progressInterval # "" /\ client'.progressInterval = "")
       => /\ ~client'.isLoading
          /\ \/ /\ response'.route = "progress"
                /\ response'.body.status \in {"completed", "error"}
             \/ client'.error = "Failed to get progress update."
  /\ (response'.route = "progress" /\ response'.body.status \in {"completed", "error"})
       => client'.progressInterval = "" /\ ~client'.isLoading
  /\ (response'.route = "progress" /\ response'.body.status = "completed")
       => client'.downloadLink = FileLink(response'.sessionId)

C11_LinkAfterCompleted ==
  \A s \in Ids : client.downloadLink = FileLink(s) => outcome[s] = "done"

C11_Reached(s) ==
  client.progressInterval = s /\ StatusOf(s) \in {"completed", "error"}

C11_ClientPolling ==
  /\ [][C11_Stopping]_vars
  /\ []C11_LinkAfterCompleted
  /\ \A s \in Ids : C11_Reached(s) ~> (client.progressInterval # s)

(* C12: the status of a stored record is one of 'initializing',
   'downloading', 'merging', 'completed' and 'error', and it changes only
   from initializing to downloading, from downloading to merging (merge
   sessions), from downloading to completed (the other sessions), from
   merging to completed, and from initializing, downloading or merging to
   error. *)
Statuses == {"initializing", "downloading", "merging", "completed", "error"}

StatusEdges(s) ==
  {<<"initializing", "downloading">>, <<"merging", "completed">>}
    \cup (IF IsMergeSession(s) THEN {<<"downloading", "merging">>}
          ELSE {<<"downloading", "completed">>})
    \cup {<<from, "error">> : from \in {"initializing", "downloading", "merging"}}

C12_StatusStep ==
  \A s \in Ids :
    /\ s \in DOMAIN downloadProgress' => downloadProgress'[s].status \in Statuses
    /\ (s \in DOMAIN downloadProgress /\ s \in DOMAIN downloadProgress'
          /\ downloadProgress'[s].status # downloadProgress[s].status)
         => <<downloadProgress[s].status, downloadProgress'[s].status>> \in StatusEdges(s)

C12_StatusEdges == [][C12_StatusStep]_vars

(* C13: 'error' and 'completed' are terminal: while a record with one of
   these statuses stays in the map, no step changes its status, its
   progress or its stage. *)
C13_TerminalStep ==
  \A s \in Ids :
    (s \in DOMAIN downloadProgress /\ s \in DOMAIN downloadProgress'
      /\ downloadProgress[s].status \in {"error", "completed"})
     => /\ downloadProgress'[s].status = downloadProgress[s].status
        /\ downloadProgress'[s].progress = downloadProgress[s].progress
        /\ downloadProgress'[s].stage = downloadProgress[s].stage

C13_Terminal == [][C13_TerminalStep]_vars
(* C14: a record with status 'completed' has progress 100 and carries a
   filePath and a filename, and the file at filePath is on disk. *)
C14_CompletedHasFile ==
  \A s \in DOMAIN downloadProgress :
    downloadProgress[s].status = "completed"
      => /\ downloadProgress[s].progress = 100
         /\ {"filePath", "filename"} \subseteq DOMAIN downloadProgress[s]
         /\ downloadProgress[s].filePath \in disk

\* A merged file is recorded as completed while the cleanup timer of
\* another, already fetched session has deleted that session's file.
C14_Witness ==
  \E s, other \in Ids :
    /\ StatusOf(s) = "completed" /\ pc[s] = "mergeWithFFmpeg"
    /\ other # s /\ other \in removed
(* C15: the stored progress is an integer from 0 to 100; in a merge session
   it is from 0 to 25 while the video stream is downloading, from 50 to 75
   while the audio stream is downloading, and from 75 to 100 while the
   status is 'merging'. *)
C15_ProgressRanges ==
  \A s \in DOMAIN downloadProgress :
    LET progress == downloadProgress[s].progress
    IN  /\ progress \in 0..100
        /\ (pc[s] = "downloadVideoStream" /\ outcome[s] = "pending") => progress \in 0..25
        /\ (pc[s] = "downloadAudioStream" /\ outcome[s] = "pending") => progress \in 50..75
        /\ downloadProgress[s].status = "merging" => progress \in 75..100

\* Each of the three stages has reported progress inside its range.
C15_Witness ==
  \E s \in Ids :
    /\ StatusOf(s) = "merging" /\ downloadProgress[s].progress > 75
    /\ \E other \in Ids :
         /\ pc[other] = "downloadAudioStream" /\ outcome[other] = "pending"
         /\ downloadProgress[other].progress \in 51..74
(* C16: within a session the stored progress never decreases from one
   update to the next, as long as the status is not 'error'. *)
C16_ProgressStep ==
  \A s \in Ids :
    (s \in DOMAIN downloadProgress /\ s \in DOMAIN downloadProgress'
      /\ downloadProgress[s].status # "error" /\ downloadProgress'[s].status # "error")
     => downloadProgress'[s].progress >= downloadProgress[s].progress

C16_ProgressMonotone == [][C16_ProgressStep]_vars

\* A merge session has gone through all its stage boundaries, with FFmpeg
\* progress reported, and a plain download has completed.
C16_Witness ==
  \E s, other \in Ids :
    /\ pc[s] = "mergeWithFFmpeg" /\ StatusOf(s) = "completed" /\ units[s] > 0
    /\ pc[other] = "downloadRegularVideo" /\ StatusOf(other) = "completed"
(* C17: a request with format 'mp3' runs the audio-only download whatever
   its itag; otherwise itag 'ffmpeg-best' or 'ffmpeg-medium' runs the merge
   pipeline, with the best quality exactly when the itag is 'ffmpeg-best';
   every other request runs the regular download.  A session runs one path
   only, and only a merge session ever has status 'merging'. *)
PathOf(s) ==
  CASE pc[s] = "downloadAudio" -> "audio"
    [] pc[s] = "downloadRegularVideo" -> "regular"
    [] pc[s] \in MergeStages -> "merge"
    [] OTHER -> "none"

C17_PathSelection ==
  \A s \in Ids :
    /\ PathOf(s) # "none" =>
         /\ PathOf(s) = IF req[s].format = "mp3" THEN "audio"
                        ELSE IF req[s].itag \in {"ffmpeg-best", "ffmpeg-medium"} THEN "merge"
                        ELSE "regular"
         /\ (pc[s] = "downloadVideoStream" /\ opts[s] # NoOpts)
              => opts[s].quality =
                   SelectedFormat(VideoOnlyFormats(Info(s)), req[s].itag = "ffmpeg-best").itag
    /\ StatusOf(s) = "merging" => PathOf(s) = "merge" /\ req[s].format # "mp3"

\* A request with format 'mp3' and itag 'ffmpeg-best' is downloading audio
\* while an 'ffmpeg-medium' session is merging.
C17_Witness ==
  \E s, other \in Ids :
    /\ PathOf(s) = "audio" /\ req[s].itag = "ffmpeg-best" /\ StatusOf(s) = "downloading"
    /\ StatusOf(other) = "merging" /\ req[other].itag = "ffmpeg-medium"
(* C18: among the formats with video and no audio, sorted by descending
   height, the best preset selects a format of maximal height and the
   medium preset the element at index floor(n / 2); without such a format
   the stage fails with 'No video-only formats found'. *)
\* The height a quality label names: 1080 for "1080p" and for "1080p60".
Height(format) == IF format.qualityLabel.present THEN format.qualityLabel.height ELSE 0

\* The positions of the video-only formats of a list.
VideoOnlyAt(formats) == {i \in DOMAIN formats : IsVideoOnly(formats[i])}

\* format can stand at index k (from 0) of the listed formats sorted by
\* descending height.
AtIndexByHeight(format, formats, at, k) ==
  /\ Cardinality({i \in at : Height(formats[i]) > Height(format)}) <= k
  /\ Cardinality({i \in at : Height(formats[i]) >= Height(format)}) > k

C19_RegularSelection ==
  probe.op = "downloadRegularVideo" =>
    LET at == {i \in DOMAIN probe.formats : IsCombinedMp4(probe.formats[i])}
        Best(i) == \A j \in at :
                     \/ Height(probe.formats[j]) < Height(probe.formats[i])
                     \/ /\ Height(probe.formats[j]) = Height(probe.formats[i])
                        /\ probe.formats[j].bitrate <= probe.formats[i].bitrate
    IN  IF probe.itag \notin {"", "highest", "highest-audio"}
        THEN probe.result = [quality |-> probe.itag]
        ELSE IF at = {}
        THEN probe.result = [filter |-> "videoandaudio", quality |-> "highest"]
        ELSE \E i \in at : Best(i) /\ probe.result = [quality |-> probe.formats[i].itag]
(* C20: POST /api/info returns as videoFormats the presets 'ffmpeg-best',
   'highest-audio' and 'ffmpeg-medium', in that order, followed by at most
   15 formats in descending order of resolution, combined formats before
   video-only formats of the same resolution; each of these is a combined
   mp4 format or a video-only mp4 format with a quality label; audioFormats
   holds at most 5 audio-only formats in descending order of bitrate. *)
\* The entry lists a format of the list that is of one of the kinds.
ListedFrom(entry, formats, kinds) ==
  \E i \in DOMAIN formats :
    /\ formats[i].itag = entry.itag
    /\ \/ /\ "combined" \in kinds /\ entry.type = "combined"
          /\ formats[i].hasVideo /\ formats[i].hasAudio /\ formats[i].container = "mp4"
       \/ /\ "video-only" \in kinds /\ entry.type = "video-only"
          /\ formats[i].hasVideo /\ ~formats[i].hasAudio /\ formats[i].container = "mp4"
          /\ formats[i].qualityLabel.present
       \/ /\ "audio" \in kinds
          /\ formats[i].hasAudio /\ ~formats[i].hasVideo
          /\ formats[i].audioBitrate = entry.bitrate

Resolution(entry) == IF entry.quality.present THEN entry.quality.height ELSE 0

C20_InfoListing ==
  probe.op = "info" =>
    LET videoFormats == probe.result.videoFormats
        audioFormats == probe.result.audioFormats
        listed == SubSeq(videoFormats, 4, Len(videoFormats))
    IN  /\ Len(videoFormats) >= 3
        /\ <<videoFormats[1].itag, videoFormats[2].itag, videoFormats[3].itag>>
             = <<"ffmpeg-best", "highest-audio", "ffmpeg-medium">>
        /\ Len(listed) <= 15
        /\ \A i, j \in DOMAIN listed :
             i < j => /\ Resolution(listed[i]) >= Resolution(listed[j])
                      /\ Resolution(listed[i]) = Resolution(listed[j])
                           => ~(listed[i].type = "video-only" /\ listed[j].type = "combined")
        /\ \A i \in DOMAIN listed :
             ListedFrom(listed[i], probe.formats, {"combined", "video-only"})
        /\ Len(audioFormats) <= 5
        /\ \A i, j \in DOMAIN audioFormats :
             i < j => audioFormats[i].bitrate >= audioFormats[j].bitrate
        /\ \A i \in DOMAIN audioFormats : ListedFrom(audioFormats[i], probe.formats, {"audio"})

\* A list of more than 15 video formats is cut to 15, among them a combined
\* and a video-only format of the same resolution and formats of another
\* resolution, given in another order than the listed one.
C20_Witness ==
  /\ probe.op = "info"
  /\ Len(probe.result.videoFormats) = 3 + 15
  /\ Len(SelectSeq(probe.formats, IsCombinedMp4))
       + Len(SelectSeq(probe.formats, IsListedVideoOnly)) > 15
  /\ ~probe.formats[1].hasAudio
  /\ \E i, j \in 4..18 :
       /\ probe.result.videoFormats[i].type = "combined"
       /\ probe.result.videoFormats[j].type = "video-only"
       /\ Resolution(probe.result.videoFormats[i]) = Resolution(probe.result.videoFormats[j])
  /\ \E i, j \in 4..18 :
       Resolution(probe.result.videoFormats[i]) # Resolution(probe.result.videoFormats[j])
(* C21: in a merge session with status 'completed' the merged output file
   is the only file of the session on disk, the video-only and audio-only
   files having been deleted before; and when the deletion of one of these
   two files has failed, the session has status 'error' and none of its
   three files is left. *)
UnlinkFailed(s) == s \in merged /\ outcome[s] = "caught"

C21_IntermediateFilesDeleted ==
  \A s \in Ids :
    IsMergeSession(s) =>
      /\ StatusOf(s) = "completed" => TempFiles(s) = {MergedPath(Title(s), s)}
      /\ UnlinkFailed(s) => StatusOf(s) = "error" /\ TempFiles(s) = {}
(* C22: a stream 'progress' event of the video-stream or audio-stream stage
   of the merge pipeline changes only the progress and the stage of the
   session's record: the record keeps its fields, and its status and every
   other field keep their values. *)
C22_ProgressFrameStep ==
  \A s \in Ids :
    (StreamProgress(s) /\ pc[s] \in {"downloadVideoStream", "downloadAudioStream"})
     => /\ s \in DOMAIN downloadProgress /\ s \in DOMAIN downloadProgress'
        /\ DOMAIN downloadProgress'[s] = DOMAIN downloadProgress[s]
        /\ \A f \in DOMAIN downloadProgress[s] \ {"progress", "stage"} :
             downloadProgress'[s][f] = downloadProgress[s][f]

C22_ProgressFrame == [][C22_ProgressFrameStep]_vars

\* A progress event of the audio-stream stage has rewritten a record that
\* has an error field besides its status.
C22_Witness ==
  \E s \in Ids :
    /\ pc[s] = "downloadAudioStream" /\ units[s] > 0
    /\ StatusOf(s) = "error" /\ "error" \in DOMAIN downloadProgress[s]
    /\ downloadProgress[s].progress > 50
(* C23: every POST /api/download request receives exactly one response, the
   400 error or the success response with the session id: the step that
   takes up a request sends it, also when the handler fails before the
   success response, and no later step sends another; and no record is
   stored under a session id that was not returned to a client. *)
C23_ResponseStep ==
  /\ uuids' # uuids
       => /\ response'.route = "download"
          /\ \/ response'.code = 400
             \/ response'.code = 200 /\ response'.body.sessionId = Head(uuids)
  /\ uuids' = uuids => response'.route # "download"

C23_OneResponse ==
  /\ [][C23_ResponseStep]_vars
  /\ [](\A s \in DOMAIN downloadProgress : Returned(s))
(* C24: sessions never share a temporary file: the five paths a session
   may write contain the session's id and are pairwise distinct, the paths
   of two sessions are distinct also for the same title, and every step of
   a session creates, deletes and delivers files of that session only. *)
Contains(str, sub) ==
  \E i \in 1..(Len(str) - Len(sub) + 1) : SubSeq(str, i, i + Len(sub) - 1) = sub

OwnPaths(s) == UNION {PathsOf(title, s) : title \in Titles}

C24_PathsDistinct ==
  \A s \in Ids :
    /\ \A title \in Titles :
         /\ Cardinality(PathsOf(title, s)) = 5
         /\ \A p \in PathsOf(title, s) : Contains(p, s)
    /\ \A other \in Ids \ {s} : OwnPaths(s) \cap OwnPaths(other) = {}

C24_OwnFilesStep ==
  \A s \in Ids :
    /\ SessionStep(s) => (disk' \ disk) \cup (disk \ disk') \subseteq OwnPaths(s)
    /\ (FileRequest(s) /\ response'.code = 200) => response'.body.file \in OwnPaths(s)

C24_NoSharedFiles == []C24_PathsDistinct /\ [][C24_OwnFilesStep]_vars

\* Two merge sessions of the same video, with the same title, run at the
\* same time: the second has failed and its catch block has deleted its
\* files, and the video and audio files of the first are still on disk.
C24_Witness ==
  /\ \A s \in Ids : IsMergeSession(s) /\ req[s].url = UrlA
  /\ pc["id1"] = "downloadAudioStream" /\ outcome["id1"] = "pending"
  /\ {VideoPath(Title("id1"), "id1"), AudioPath(Title("id1"), "id1")} \subseteq disk
  /\ pc["id2"] = "downloadVideoStream" /\ outcome["id2"] = "caught"
  /\ TempFiles("id2") = {}
====

